---- MODULE Spec2Model ----
(***************************************************************************)
(* Document-analysis web application: an express backend with two routes   *)
(* (POST /upload, POST /query) and a React client holding the session      *)
(* state.  The backend routes are modelled as step machines whose steps    *)
(* are the synchronous blocks between suspension points (multer's disk     *)
(* write, await pdfParse, await axios.post); the client handlers are       *)
(* modelled the same way (one step up to the await, one step for the       *)
(* continuation).                                                          *)
(*                                                                         *)
(* Strings are sequences of symbols: a symbol is one character of user     *)
(* data (" ", "a", ...) or one literal chunk of a template.  Optional      *)
(* values (undefined / absent) are sequences of length 0 or 1.             *)
(***************************************************************************)
EXTENDS Integers, Sequences, FiniteSets, TLC

VARIABLES
    uploads,    \* backend: one record per /upload request
    disk,       \* backend: the uploads directory, path -> file or nothing
    parseError, \* backend: the global created by the assignment in catch (parseErr)
    queries,    \* backend: one record per /query request
    client,     \* frontend: the React state of App
    net         \* frontend: requests awaiting their response

vars == <<uploads, disk, parseError, queries, client, net>>

----------------------------------------------------------------------------
(* Bounds *)

NUploads == 2        \* concurrent /upload requests
NQueries == 1        \* concurrent /query requests
MaxInFlight == 2     \* client requests awaiting a response at once

UploadIds == 1..NUploads
QueryIds == 1..NQueries

----------------------------------------------------------------------------
(* Optional values and strings *)

None == <<>>
Some(v) == <<v>>
IsSome(o) == o # <<>>
Get(o) == o[1]

IsWhite(c) == c \in {" ", "\n"}

RECURSIVE TrimStart(_)
TrimStart(s) == IF s # <<>> /\ IsWhite(Head(s)) THEN TrimStart(Tail(s)) ELSE s

RECURSIVE TrimEnd(_)
TrimEnd(s) ==
    IF s # <<>> /\ IsWhite(s[Len(s)]) THEN TrimEnd(SubSeq(s, 1, Len(s) - 1)) ELSE s

\* String.prototype.trim
Trim(s) == TrimEnd(TrimStart(s))

Contains(s, sym) == \E i \in 1..Len(s) : s[i] = sym

----------------------------------------------------------------------------
(* Files *)

\* path.extname(originalname): names are kept as stem + extension as typed
Extname(originalname) == originalname.ext

ToLowerCase(e) ==
    CASE e = ".PDF" -> ".pdf"
      [] e = ".XLSX" -> ".xlsx"
      [] OTHER -> e

FileSizeLimit == 10 * 1024 * 1024

MimePdf == "application/pdf"
MimeXlsx == "application/vnd.openxmlformats-officedocument.spreadsheetml.sheet"
MimeXls == "application/vnd.ms-excel"
MimeTxt == "text/plain"

allowedExtensions == {".pdf", ".xlsx", ".xls"}
allowedMimeTypes == {MimePdf, MimeXlsx, MimeXls}

\* File contents.  fmt is what the bytes really are, whatever the name says.
\* A workbook is SheetNames plus, per sheet, rows of optional cells.
PdfBytes(t) == [fmt |-> "pdf", text |-> t, SheetNames |-> <<>>, Sheets |-> <<>>]
BookBytes(names, sheets) ==
    [fmt |-> "book", text |-> <<>>, SheetNames |-> names, Sheets |-> sheets]
Garbage == [fmt |-> "garbage", text |-> <<>>, SheetNames |-> <<>>, Sheets |-> <<>>]

Row1 == <<Some(<<"a">>), Some(<<"b">>)>>
Row2 == <<Some(<<"1">>), None>>

Book1 == BookBytes(<<"Sheet1">>, <<(<<Row1, Row2>>)>>)
Book2 == BookBytes(<<"2", "1">>, <<(<<Row1>>), (<<Row2>>)>>)

Contents == {PdfBytes(<<"a", " ">>), PdfBytes(<<>>), Book1, Book2, Garbage}

Name(stem, ext) == [stem |-> stem, ext |-> ext]
File(n, m, sz, b) == [originalname |-> n, mimetype |-> m, size |-> sz, bytes |-> b]

Names ==
    {Name("a", ".pdf"), Name("a", ".PDF"), Name("b", ".xlsx"), Name("c", ".xls"),
     Name("d", ".txt"), Name("e", "")}
Mimes == {MimePdf, MimeXlsx, MimeXls, MimeTxt}
Sizes == {1, FileSizeLimit, FileSizeLimit + 1}

\* every combination, for one request at a time
WideFiles == {File(n, m, sz, b) : n \in Names, m \in Mimes, sz \in Sizes, b \in Contents}

\* a selection for concurrent requests: same and different names, accepted
\* and rejected types, oversized, parsable and unparsable contents
NarrowFiles ==
    {File(Name("a", ".pdf"), MimePdf, 1, PdfBytes(<<"a", " ">>)),
     File(Name("a", ".pdf"), MimePdf, 1, PdfBytes(<<>>)),
     File(Name("a", ".pdf"), MimePdf, 1, Garbage),
     File(Name("a", ".pdf"), MimePdf, FileSizeLimit + 1, PdfBytes(<<"a", " ">>)),
     File(Name("a", ".pdf"), MimeXls, 1, Book1),
     File(Name("b", ".xlsx"), MimeXlsx, 1, Book1),
     File(Name("b", ".xlsx"), MimeXlsx, 1, Book2),
     File(Name("d", ".txt"), MimeTxt, 1, Garbage)}

----------------------------------------------------------------------------
(* JSON values carried in responses and request bodies *)

JsUndefined == [kind |-> "undefined", s |-> <<>>, entries |-> <<>>]
JsNull == [kind |-> "null", s |-> <<>>, entries |-> <<>>]
JsString(s) == [kind |-> "string", s |-> s, entries |-> <<>>]
\* an object is its entries in property order
JsObject(entries) == [kind |-> "object", s |-> <<>>, entries |-> entries]

\* !v
Falsy(v) == v.kind \in {"undefined", "null"} \/ (v.kind = "string" /\ v.s = <<>>)

\* Property order of a JS object: integer-like keys ascending, then the
\* other keys in insertion order.
IndexKeys == {"0", "1", "2", "3"}
IndexVal(k) == CASE k = "0" -> 0 [] k = "1" -> 1 [] k = "2" -> 2 [] OTHER -> 3

RECURSIVE InsertEntry(_, _)
InsertEntry(entries, e) ==
    IF entries = <<>> THEN <<e>>
    ELSE LET h == Head(entries) IN
         IF h.key = e.key THEN <<e>> \o Tail(entries)
         ELSE IF e.key \in IndexKeys
                   /\ (h.key \notin IndexKeys \/ IndexVal(e.key) < IndexVal(h.key))
              THEN <<e>> \o entries
              ELSE <<h>> \o InsertEntry(Tail(entries), e)

----------------------------------------------------------------------------
(* Extraction (pdf-parse and xlsx, called from the upload route) *)

\* pdfParse(dataBuffer): resolves with {text} or rejects
pdfParse(bytes) ==
    IF bytes.fmt = "pdf"
    THEN [ok |-> TRUE, text |-> bytes.text, message |-> <<>>]
    ELSE [ok |-> FALSE, text |-> <<>>, message |-> <<"Invalid PDF structure">>]

\* xlsx.readFile(filePath): returns the workbook or throws
xlsxRead(bytes) ==
    IF bytes.fmt = "book"
    THEN [ok |-> TRUE, workbook |-> bytes, message |-> <<>>]
    ELSE [ok |-> FALSE, workbook |-> bytes, message |-> <<"Unsupported file">>]

\* xlsx.utils.sheet_to_json(sheet, { header: 1, defval: '' })
sheet_to_json(sheet) ==
    [i \in 1..Len(sheet) |->
        [j \in 1..Len(sheet[i]) |->
            IF IsSome(sheet[i][j]) THEN Get(sheet[i][j]) ELSE <<>>]]

\* workbook.SheetNames.forEach(sheetName => sheetData[sheetName] = jsonData)
RECURSIVE SheetDataFrom(_, _, _)
SheetDataFrom(workbook, i, sheetData) ==
    IF i > Len(workbook.SheetNames) THEN sheetData
    ELSE SheetDataFrom(workbook, i + 1,
            InsertEntry(sheetData,
                [key |-> workbook.SheetNames[i],
                 val |-> sheet_to_json(workbook.Sheets[i])]))

----------------------------------------------------------------------------
(* POST /upload *)

\* mutant: the body-parser limit of 50mb taken for the file size limit
ExceedsLimitLax(size) == size > 50 * 1024 * 1024

\* limits: { fileSize: 10 * 1024 * 1024 }
ExceedsLimit(size) == size > FileSizeLimit

\* fileFilter accepts
fileFilter(file) ==
    LET fileExtension == ToLowerCase(Extname(file.originalname))
        isExtensionAllowed == fileExtension \in allowedExtensions
        isMimeTypeAllowed == file.mimetype \in allowedMimeTypes
    IN  isExtensionAllowed /\ isMimeTypeAllowed

MsgInvalidType == <<"Invalid file type. Only PDF, XLSX, and XLS files are allowed.">>
MsgTooLarge == <<"File too large">>
MsgNoFile == <<"No file uploaded.">>
MsgUploaded == <<"File uploaded and processed successfully!">>
MsgENOENT == <<"ENOENT: no such file or directory">>

UploadOk(contentType, data) ==
    [status |-> 200, message |-> MsgUploaded,
     contentType |-> Some(contentType), extractedData |-> data]
UploadFail(status, message) ==
    [status |-> status, message |-> message,
     contentType |-> None, extractedData |-> JsUndefined]

\* mutant: the catch block answers without setting the status
ParseFailedNoStatus(message) == UploadFail(200, <<"Error processing file: ">> \o message)

\* catch (parseErr): res.status(500).json({ message: parseError })
ParseFailed(message) == UploadFail(500, <<"Error processing file: ">> \o message)

\* the response when multer reports an error or no file
RejectReply(err, errMessage) ==
    IF err = "MulterError" THEN UploadFail(400, <<"Multer error: ">> \o errMessage)
    ELSE IF err = "Error" THEN UploadFail(400, errMessage)
    ELSE UploadFail(400, MsgNoFile)

\* mutant: responseContentType left at its default in the Excel branch
ExcelReplyDefaultTag(bytes) ==
    LET wb == xlsxRead(bytes) IN
    IF wb.ok
    THEN UploadOk("text/plain", JsObject(SheetDataFrom(wb.workbook, 1, <<>>)))
    ELSE ParseFailed(wb.message)

\* the .xlsx/.xls branch of the try block, given the bytes read from filePath
ExcelReply(bytes) ==
    LET wb == xlsxRead(bytes) IN
    IF wb.ok
    THEN UploadOk("application/json", JsObject(SheetDataFrom(wb.workbook, 1, <<>>)))
    ELSE ParseFailed(wb.message)

\* the .pdf branch after await pdfParse(dataBuffer)
PdfReply(dataBuffer) ==
    LET data == pdfParse(dataBuffer) IN
    IF data.ok THEN UploadOk("text/plain", JsString(data.text))
    ELSE ParseFailed(data.message)

\* neither branch of the try block taken
OtherReply == UploadOk("text/plain", JsNull)

\* mutant: every upload is stored under one fixed name
filenameFixed(file) == Name("e", "")

\* storage.filename: cb(null, file.originalname); req.file.path is that name
\* inside uploadsDir
filename(file) == file.originalname

\* mutant: the cleanup empties the uploads directory
UnlinkAll(d, path) == [n \in DOMAIN d |-> None]

\* mutant: the finally block does not delete the file
UnlinkSkipped(d, path) == d

\* fs.unlinkSync(filePath) inside try/catch: removes whatever is at the path
Unlink(d, path) == [d EXCEPT ![path] = None]

IdleUpload ==
    [pc |-> "idle", part |-> None, file |-> None, err |-> "none", errMessage |-> <<>>,
     dataBuffer |-> None, extractCalls |-> 0, res |-> None, sent |-> 0]

\* multer: a request without a file part reaches the callback with no error
MulterNoFile(r) ==
    /\ uploads[r].pc = "idle"
    /\ uploads' = [uploads EXCEPT ![r].pc = "callback"]
    /\ UNCHANGED <<disk, queries, client, net, parseError>>

\* multer: fileFilter, then diskStorage writes uploads/<originalname>
MulterReceive(r, f) ==
    /\ uploads[r].pc = "idle"
    /\ IF ~fileFilter(f)
       THEN /\ uploads' = [uploads EXCEPT ![r].pc = "callback",
                                          ![r].part = Some(f),
                                          ![r].err = "Error",
                                          ![r].errMessage = MsgInvalidType]
            /\ UNCHANGED disk
       ELSE /\ disk' = [disk EXCEPT ![filename(f)] =
                            Some([owner |-> r, bytes |-> f.bytes])]
            /\ uploads' = [uploads EXCEPT
                    ![r].pc = IF ExceedsLimit(f.size) THEN "limit" ELSE "callback",
                    ![r].part = Some(f),
                    ![r].file = IF ExceedsLimit(f.size) THEN None ELSE Some(f)]
    /\ UNCHANGED <<queries, client, net, parseError>>

\* multer: the size limit was hit; the stored file is removed and the
\* callback gets MulterError LIMIT_FILE_SIZE, req.file unset
MulterLimit(r) ==
    /\ uploads[r].pc = "limit"
    /\ disk' = Unlink(disk, filename(Get(uploads[r].part)))
    /\ uploads' = [uploads EXCEPT ![r].pc = "callback",
                                  ![r].err = "MulterError",
                                  ![r].errMessage = MsgTooLarge]
    /\ UNCHANGED <<queries, client, net, parseError>>

\* the callback of upload(req, res, ...) up to its first suspension or its end
UploadCallback(r) ==
    LET u == uploads[r] IN
    /\ u.pc = "callback"
    /\ IF u.err # "none" \/ ~IsSome(u.file)
       THEN /\ uploads' = [uploads EXCEPT ![r].pc = "done",
                                          ![r].sent = @ + 1,
                                          ![r].res = Some(RejectReply(u.err, u.errMessage))]
            /\ UNCHANGED disk
       ELSE LET filePath == filename(Get(u.file))
                fileExt == ToLowerCase(Extname(Get(u.file).originalname))
                onDisk == disk[filePath]
            IN  IF fileExt \in {".pdf", ".xlsx", ".xls"} /\ ~IsSome(onDisk)
                THEN \* readFileSync / readFile throws; finally: unlink fails, caught
                     /\ uploads' = [uploads EXCEPT ![r].pc = "done",
                                                   ![r].sent = @ + 1,
                                                   ![r].res = Some(ParseFailed(MsgENOENT))]
                     /\ UNCHANGED disk
                ELSE IF fileExt = ".pdf"
                THEN /\ uploads' = [uploads EXCEPT
                            ![r].pc = "awaitPdf",
                            ![r].dataBuffer = Some(Get(onDisk).bytes),
                            ![r].extractCalls = @ + 1]
                     /\ UNCHANGED disk
                ELSE IF fileExt \in {".xlsx", ".xls"}
                THEN /\ uploads' = [uploads EXCEPT
                            ![r].pc = "done",
                            ![r].extractCalls = @ + 1,
                            ![r].sent = @ + 1,
                            ![r].res = Some(ExcelReply(Get(onDisk).bytes))]
                     /\ disk' = Unlink(disk, filePath)
                ELSE /\ uploads' = [uploads EXCEPT
                            ![r].pc = "done",
                            ![r].sent = @ + 1,
                            ![r].res = Some(OtherReply)]
                     /\ disk' = Unlink(disk, filePath)
    /\ parseError' = IF IsSome(uploads'[r].res) /\ Get(uploads'[r].res).status = 500
                    THEN Get(uploads'[r].res).message ELSE parseError
    /\ UNCHANGED <<queries, client, net>>

\* the continuation after await pdfParse(dataBuffer): respond, then finally
PdfParsed(r) ==
    LET u == uploads[r] IN
    /\ u.pc = "awaitPdf"
    /\ uploads' = [uploads EXCEPT ![r].pc = "done",
                                  ![r].sent = @ + 1,
                                  ![r].res = Some(PdfReply(Get(u.dataBuffer)))]
    /\ disk' = Unlink(disk, filename(Get(u.file)))
    /\ parseError' = IF IsSome(uploads'[r].res) /\ Get(uploads'[r].res).status = 500
                    THEN Get(uploads'[r].res).message ELSE parseError
    /\ UNCHANGED <<queries, client, net>>

----------------------------------------------------------------------------
(* POST /query *)

\* `${v}` in a template literal
TemplateString(v) ==
    CASE v.kind = "string" -> v.s
      [] v.kind = "object" -> <<"[object Object]">>
      [] v.kind = "null" -> <<"null">>
      [] OTHER -> <<"undefined">>

RECURSIVE StringifyCells(_, _)
StringifyCells(row, j) ==
    IF j > Len(row) THEN <<>>
    ELSE <<"\n      \"">> \o row[j] \o <<"\"">>
         \o (IF j < Len(row) THEN <<",">> ELSE <<>>) \o StringifyCells(row, j + 1)

RECURSIVE StringifyRows(_, _)
StringifyRows(rows, i) ==
    IF i > Len(rows) THEN <<>>
    ELSE <<"\n    [">> \o StringifyCells(rows[i], 1) \o <<"\n    ]">>
         \o (IF i < Len(rows) THEN <<",">> ELSE <<>>) \o StringifyRows(rows, i + 1)

RECURSIVE StringifyEntries(_, _)
StringifyEntries(entries, i) ==
    IF i > Len(entries) THEN <<>>
    ELSE <<"\n  \"", entries[i].key, "\": [">> \o StringifyRows(entries[i].val, 1)
         \o <<"\n  ]">>
         \o (IF i < Len(entries) THEN <<",">> ELSE <<>>)
         \o StringifyEntries(entries, i + 1)

\* JSON.stringify(documentData, null, 2)
StringifyDocument(v) ==
    CASE v.kind = "string" -> <<"\"">> \o v.s \o <<"\"">>
      [] v.kind = "object" ->
            IF v.entries = <<>> THEN <<"{}">>
            ELSE <<"{">> \o StringifyEntries(v.entries, 1) \o <<"\n}">>
      [] v.kind = "null" -> <<"null">>
      [] OTHER -> <<"undefined">>

PromptHead ==
    <<"Analyze the following document content and answer the user's question.\n\nDOCUMENT CONTENT:\n---\n">>
PromptMid == <<"\n---\n\nUSER QUESTION: ">>
PromptCue == <<"\n\nANSWER:">>

\* mutant: the document is interpolated without JSON.stringify
buildPromptNoStringify(documentData, contentType, userQuery) ==
    PromptHead \o TemplateString(documentData) \o PromptMid
        \o TemplateString(userQuery) \o PromptCue

\* the prompt construction of the /query route
buildPrompt(documentData, contentType, userQuery) ==
    LET promptContext ==
            IF contentType = Some("application/json")
            THEN StringifyDocument(documentData)
            ELSE TemplateString(documentData)
    IN  PromptHead \o promptContext \o PromptMid \o TemplateString(userQuery) \o PromptCue

Body(d, q, ct, k) == [documentData |-> d, userQuery |-> q, contentType |-> ct, apiKey |-> k]

\* mutant: the credential is not validated
MissingFieldNoKey(body) == Falsy(body.documentData) \/ Falsy(body.userQuery)

\* if (!documentData || !userQuery || !apiKey)
MissingField(body) ==
    Falsy(body.documentData) \/ Falsy(body.userQuery) \/ Falsy(body.apiKey)

MsgMissing == <<"Missing document data, user query, or API key.">>
MsgFallback == <<"Could not extract answer from LLM response.">>
MsgNoResponse == <<"Gemini API Error: No response received from API server.">>
MsgTrimOfUndefined == <<"Cannot read properties of undefined (reading 'trim')">>

QueryOk(answer) == [status |-> 200, answer |-> Some(answer), message |-> None]
QueryFail(status, message) == [status |-> status, answer |-> None, message |-> Some(message)]

\* JSON.stringify(response.data.promptFeedback)
StringifyFeedback(fb) == <<"{\"blockReason\":\"", fb.blockReason, "\"}">>

\* JSON.stringify(error.response.data)
StringifyErrorData(data) ==
    IF ~IsSome(data.error) THEN <<"{}">>
    ELSE IF ~IsSome(Get(data.error).message) THEN <<"{\"error\":{}}">>
    ELSE <<"{\"error\":{\"message\":\"">> \o Get(Get(data.error).message) \o <<"\"}}">>

\* error.response.data?.error?.message || JSON.stringify(error.response.data)
ErrorDetail(data) ==
    IF IsSome(data.error) /\ IsSome(Get(data.error).message)
          /\ Get(Get(data.error).message) # <<>>
    THEN Get(Get(data.error).message)
    ELSE StringifyErrorData(data)

\* mutant: error.request tested before error.response
CatchReplyRequestFirst(error) ==
    IF error.request
    THEN QueryFail(500, MsgNoResponse)
    ELSE IF IsSome(error.response)
    THEN QueryFail(500, <<"Gemini API Error (", Get(error.response).status, "): ">>
                        \o ErrorDetail(Get(error.response).data))
    ELSE QueryFail(500, <<"Gemini API Error: ">> \o error.message)

\* the catch block of the /query route
CatchReply(error) ==
    IF IsSome(error.response)
    THEN QueryFail(500, <<"Gemini API Error (", Get(error.response).status, "): ">>
                        \o ErrorDetail(Get(error.response).data))
    ELSE IF error.request
    THEN QueryFail(500, MsgNoResponse)
    ELSE QueryFail(500, <<"Gemini API Error: ">> \o error.message)

\* the condition of the first branch of the answer extraction
HasFirstPart(data) ==
    /\ IsSome(data.candidates)
    /\ Get(data.candidates) # <<>>
    /\ IsSome(Get(data.candidates)[1].content)
    /\ IsSome(Get(Get(data.candidates)[1].content).parts)
    /\ Get(Get(Get(data.candidates)[1].content).parts) # <<>>

FirstPart(data) == Get(Get(Get(data.candidates)[1].content).parts)[1]

\* the try block after await axios.post resolved with response.data = data
AnswerReply(data) ==
    LET llmAnswer ==
            IF HasFirstPart(data) THEN FirstPart(data).text
            ELSE IF IsSome(data.promptFeedback)
            THEN Some(<<"LLM Safety Feedback: ">> \o StringifyFeedback(Get(data.promptFeedback)))
            ELSE Some(MsgFallback)
    IN  IF IsSome(llmAnswer)
        THEN QueryOk(Trim(Get(llmAnswer)))
        ELSE \* undefined.trim() throws a TypeError, caught by the catch block
             CatchReply([response |-> None, request |-> FALSE,
                         message |-> MsgTrimOfUndefined])

\* what await axios.post(...) can do
Resolved(data) == [ok |-> TRUE, data |-> data,
                   error |-> [response |-> None, request |-> FALSE, message |-> <<>>]]
Rejected(error) == [ok |-> FALSE,
                    data |-> [candidates |-> None, promptFeedback |-> None],
                    error |-> error]

\* the route's response once the provider call has settled
QueryReply(outcome) ==
    IF outcome.ok THEN AnswerReply(outcome.data) ELSE CatchReply(outcome.error)

\* provider payloads: every shape of candidates, with and without feedback
Texts == {<<>>, <<" ">>, <<"a">>, <<" ", "a", "\n">>}
Parts == {[text |-> None]} \cup {[text |-> Some(t)] : t \in Texts}
PartLists == {<<>>, <<[text |-> Some(<<"a">>)], [text |-> None]>>} \cup {<<p>> : p \in Parts}
CandContents == {[parts |-> None]} \cup {[parts |-> Some(pl)] : pl \in PartLists}
Candidates == {[content |-> None]} \cup {[content |-> Some(c)] : c \in CandContents}
CandidateLists == {<<>>} \cup {<<c>> : c \in Candidates}
Feedbacks == {[blockReason |-> "SAFETY"], [blockReason |-> "OTHER"]}
Payloads ==
    [candidates : {None} \cup {Some(cl) : cl \in CandidateLists},
     promptFeedback : {None} \cup {Some(fb) : fb \in Feedbacks}]

\* provider failures as axios reports them
ErrorMessages == {<<"quota exceeded">>, <<"API key not valid">>, <<>>}
ErrorDatas ==
    {[error |-> None], [error |-> Some([message |-> None])]}
        \cup {[error |-> Some([message |-> Some(m)])] : m \in ErrorMessages}
ErrorStatuses == {"400", "429", "503"}
HttpError(status, data) ==
    [response |-> Some([status |-> status, data |-> data]), request |-> TRUE,
     message |-> <<"Request failed with status code ", status>>]
NoResponse == [response |-> None, request |-> TRUE, message |-> <<"Network Error">>]
SetupError == [response |-> None, request |-> FALSE, message |-> <<"Invalid URL">>]
ProviderErrors ==
    {HttpError(s, d) : s \in ErrorStatuses, d \in ErrorDatas} \cup {NoResponse, SetupError}

Outcomes == {Resolved(d) : d \in Payloads} \cup {Rejected(e) : e \in ProviderErrors}

\* request bodies
Sheet1Data == JsObject(SheetDataFrom(Book1, 1, <<>>))
Sheet2Data == JsObject(SheetDataFrom(Book2, 1, <<>>))
DocumentValues ==
    {JsUndefined, JsNull, JsString(<<>>), JsString(<<"a", " ">>), JsObject(<<>>),
     Sheet1Data, Sheet2Data}
QuestionValues == {JsUndefined, JsString(<<>>), JsString(<<" ">>), JsString(<<"a">>)}
KeyValues == {JsUndefined, JsString(<<>>), JsString(<<"k">>)}
TagValues == {None, Some("text/plain"), Some("application/json")}
Bodies ==
    {Body(d, q, ct, k) : d \in DocumentValues, q \in QuestionValues,
                         ct \in TagValues, k \in KeyValues}

\* a selection of bodies and provider outcomes for requests running next to
\* uploads: text and sheet documents, a missing field; an answer, a part
\* without text, feedback, no usable shape, and the three failures
PartPayload(part, fb) ==
    [candidates |-> Some(<<[content |-> Some([parts |-> Some(<<part>>)])]>>),
     promptFeedback |-> fb]
BackendBodies ==
    {Body(JsString(<<"a", " ">>), JsString(<<"a">>), Some("text/plain"), JsString(<<"k">>)),
     Body(Sheet1Data, JsString(<<"a">>), Some("application/json"), JsString(<<"k">>)),
     Body(JsString(<<"a", " ">>), JsString(<<>>), Some("text/plain"), JsString(<<"k">>))}
BackendOutcomes ==
    {Resolved(PartPayload([text |-> Some(<<" ", "a", "\n">>)], None)),
     Resolved(PartPayload([text |-> None], None)),
     Resolved([candidates |-> None, promptFeedback |-> Some([blockReason |-> "SAFETY"])]),
     Resolved([candidates |-> None, promptFeedback |-> None]),
     Rejected(HttpError("429", [error |-> Some([message |-> Some(<<"quota exceeded">>)])])),
     Rejected(NoResponse),
     Rejected(SetupError)}

IdleQuery ==
    [pc |-> "idle", body |-> Body(JsUndefined, JsUndefined, None, JsUndefined),
     prompt |-> <<>>, providerCalls |-> 0, outcome |-> None, res |-> None, sent |-> 0]

\* the /query route up to await axios.post(...)
QueryReceive(q, body) ==
    /\ queries[q].pc = "idle"
    /\ IF MissingField(body)
       THEN queries' = [queries EXCEPT ![q].pc = "done",
                                       ![q].body = body,
                                       ![q].sent = @ + 1,
                                       ![q].res = Some(QueryFail(400, MsgMissing))]
       ELSE queries' = [queries EXCEPT
                ![q].pc = "awaitProvider",
                ![q].body = body,
                ![q].prompt = buildPrompt(body.documentData, body.contentType,
                                          body.userQuery),
                ![q].providerCalls = @ + 1]
    /\ UNCHANGED <<uploads, disk, client, net, parseError>>

\* mutant: a failed provider call is repeated once
QuerySettleRetry(q, outcome) ==
    /\ queries[q].pc = "awaitProvider"
    /\ IF ~outcome.ok /\ queries[q].providerCalls < 2
       THEN queries' = [queries EXCEPT ![q].providerCalls = @ + 1]
       ELSE queries' = [queries EXCEPT ![q].pc = "done",
                                       ![q].outcome = Some(outcome),
                                       ![q].sent = @ + 1,
                                       ![q].res = Some(QueryReply(outcome))]
    /\ UNCHANGED <<uploads, disk, client, net, parseError>>

\* the /query route after the provider call settled
QuerySettle(q, outcome) ==
    /\ queries[q].pc = "awaitProvider"
    /\ queries' = [queries EXCEPT ![q].pc = "done",
                                  ![q].outcome = Some(outcome),
                                  ![q].sent = @ + 1,
                                  ![q].res = Some(QueryReply(outcome))]
    /\ UNCHANGED <<uploads, disk, client, net, parseError>>

----------------------------------------------------------------------------
(* The backend as one client sees it *)

\* the try block of the upload callback run on the given bytes
HandlerReply(fileExt, bytes) ==
    IF fileExt = ".pdf" THEN PdfReply(bytes)
    ELSE IF fileExt \in {".xlsx", ".xls"} THEN ExcelReply(bytes)
    ELSE OtherReply

\* the response of POST /upload for file f when no other request runs
SoloUploadReply(f) ==
    IF ~fileFilter(f) THEN RejectReply("Error", MsgInvalidType)
    ELSE IF ExceedsLimit(f.size) THEN RejectReply("MulterError", MsgTooLarge)
    ELSE HandlerReply(ToLowerCase(Extname(f.originalname)), f.bytes)

\* the responses POST /upload can give for file f: the route run alone, or
\* with its scratch file already removed by a same-name upload
UploadReplies(f) ==
    {SoloUploadReply(f)}
        \cup (IF fileFilter(f) /\ ~ExceedsLimit(f.size) THEN {ParseFailed(MsgENOENT)} ELSE {})

\* the responses POST /query can give for a body
ClientOutcomes ==
    {Resolved([candidates |->
                  Some(<<[content |-> Some([parts |-> Some(<<[text |-> Some(<<" ", "a", "\n">>)]>>)])]>>),
               promptFeedback |-> None]),
     Resolved([candidates |-> None, promptFeedback |-> Some([blockReason |-> "SAFETY"])]),
     Rejected(HttpError("429", [error |-> Some([message |-> Some(<<"quota exceeded">>)])]))}

QueryReplies(body) ==
    IF MissingField(body) THEN {QueryFail(400, MsgMissing)}
    ELSE {QueryReply(o) : o \in ClientOutcomes}

----------------------------------------------------------------------------
(* The client: App.jsx *)

\* the files the user picks: a PDF with text, a PDF without text, a PDF that
\* does not parse, a workbook, a text file
ClientFiles ==
    {File(Name("a", ".pdf"), MimePdf, 1, PdfBytes(<<"a", " ">>)),
     File(Name("a", ".pdf"), MimePdf, 1, PdfBytes(<<>>)),
     File(Name("a", ".pdf"), MimePdf, 1, Garbage),
     File(Name("b", ".xlsx"), MimeXlsx, 1, Book1),
     File(Name("d", ".txt"), MimeTxt, 1, Garbage)}
QuestionInputs == {<<>>, <<" ">>, <<"a">>}
KeyInputs == {<<>>, <<" ">>, <<"k", " ">>}

\* answeredDocument is a history field: the extractedData captured by the
\* handleQuerySubmit call whose continuation stored llmResponse
InitialClient ==
    [selectedFile |-> None, uploadStatus |-> "Idle", extractedData |-> JsNull,
     contentType |-> None, isLoadingUpload |-> FALSE, uploadErrorMessage |-> <<>>,
     userQuery |-> <<>>, llmResponse |-> <<>>, answeredDocument |-> JsNull,
     isLoadingQuery |-> FALSE,
     queryErrorMessage |-> <<>>, apiKey |-> <<>>, apiKeySubmitted |-> FALSE,
     apiKeyInput |-> <<>>]

NoBody == Body(JsUndefined, JsUndefined, None, JsUndefined)
UploadRequest(f) == [kind |-> "upload", file |-> Some(f), body |-> NoBody, reply |-> None]
QueryRequest(body) == [kind |-> "query", file |-> None, body |-> body, reply |-> None]

\* no response received (error.request without error.response)
UploadNoConn == UploadFail(0, <<>>)
QueryNoConn == [status |-> 0, answer |-> None, message |-> None]

RemoveAt(s, i) == SubSeq(s, 1, i - 1) \o SubSeq(s, i + 1, Len(s))

handleApiKeyInputChange(v) ==
    /\ ~client.apiKeySubmitted
    /\ client' = [client EXCEPT !.apiKeyInput = v]
    /\ UNCHANGED <<uploads, disk, queries, net, parseError>>

\* mutant: the key is accepted without the blank check
handleApiKeySubmitNoCheck ==
    /\ ~client.apiKeySubmitted
    /\ client' = [client EXCEPT !.apiKey = Trim(client.apiKeyInput),
                                !.apiKeySubmitted = TRUE,
                                !.uploadErrorMessage = <<>>]
    /\ UNCHANGED <<uploads, disk, queries, net, parseError>>

handleApiKeySubmit ==
    /\ ~client.apiKeySubmitted
    /\ IF Trim(client.apiKeyInput) = <<>>
       THEN client' = [client EXCEPT !.uploadErrorMessage = <<"Please enter an API key.">>]
       ELSE client' = [client EXCEPT !.apiKey = Trim(client.apiKeyInput),
                                     !.apiKeySubmitted = TRUE,
                                     !.uploadErrorMessage = <<>>]
    /\ UNCHANGED <<uploads, disk, queries, net, parseError>>

\* the file input, disabled={isLoadingUpload}; file = None when the dialog
\* is cancelled
handleFileChange(file) ==
    /\ client.apiKeySubmitted
    /\ ~client.isLoadingUpload
    /\ IF IsSome(file)
       THEN client' = [client EXCEPT !.selectedFile = file,
                                     !.uploadStatus = "Ready to upload",
                                     !.extractedData = JsNull,
                                     !.contentType = None,
                                     !.userQuery = <<>>,
                                     !.answeredDocument = JsNull,
                                     !.llmResponse = <<>>,
                                     !.uploadErrorMessage = <<>>,
                                     !.queryErrorMessage = <<>>]
       ELSE client' = [client EXCEPT !.selectedFile = None,
                                     !.uploadStatus = "Idle"]
    /\ UNCHANGED <<uploads, disk, queries, net, parseError>>

\* mutant: starting an upload keeps the document, its tag and the answer
handleUploadKeepsDocument ==
    /\ client.apiKeySubmitted
    /\ IsSome(client.selectedFile) /\ ~client.isLoadingUpload
    /\ Len(net) < MaxInFlight
    /\ client' = [client EXCEPT !.isLoadingUpload = TRUE,
                                !.uploadStatus = "Uploading...",
                                !.uploadErrorMessage = <<>>,
                                !.queryErrorMessage = <<>>]
    /\ net' = Append(net, UploadRequest(Get(client.selectedFile)))
    /\ UNCHANGED <<uploads, disk, queries, parseError>>

\* the Upload button, disabled={!selectedFile || isLoadingUpload}: handleUpload
\* up to await axios.post (the button cannot be pressed without a selected
\* file, so the handler's early return is never taken)
handleUpload ==
    /\ client.apiKeySubmitted
    /\ IsSome(client.selectedFile) /\ ~client.isLoadingUpload
    /\ Len(net) < MaxInFlight
    /\ client' = [client EXCEPT !.isLoadingUpload = TRUE,
                                !.uploadStatus = "Uploading...",
                                !.uploadErrorMessage = <<>>,
                                !.queryErrorMessage = <<>>,
                                !.extractedData = JsNull,
                                !.contentType = None,
                                !.answeredDocument = JsNull,
                                !.llmResponse = <<>>]
    /\ net' = Append(net, UploadRequest(Get(client.selectedFile)))
    /\ UNCHANGED <<uploads, disk, queries, parseError>>

\* handleUpload after the await: try / catch / finally
UploadSettled(contentType, extractedData) ==
    [client EXCEPT !.uploadStatus = "File uploaded and processed successfully!",
                   !.extractedData = extractedData,
                   !.contentType = contentType,
                   !.isLoadingUpload = FALSE]

\* mutant: the catch block without the finally block
UploadFailedNoFinally(msg) ==
    [client EXCEPT !.uploadErrorMessage = <<"Upload failed: ">> \o msg,
                   !.uploadStatus = "Upload failed",
                   !.extractedData = JsNull,
                   !.contentType = None]

UploadFailed(msg) ==
    [client EXCEPT !.uploadErrorMessage = <<"Upload failed: ">> \o msg,
                   !.uploadStatus = "Upload failed",
                   !.extractedData = JsNull,
                   !.contentType = None,
                   !.isLoadingUpload = FALSE]

\* the backend answers a pending upload, or the transport gives up
UploadAnswered(i, reply) ==
    /\ i \in 1..Len(net) /\ net[i].kind = "upload" /\ ~IsSome(net[i].reply)
    /\ reply \in UploadReplies(Get(net[i].file)) \cup {UploadNoConn}
    /\ net' = [net EXCEPT ![i].reply = Some(reply)]
    /\ UNCHANGED <<uploads, disk, queries, client, parseError>>

handleUploadResume(i) ==
    /\ i \in 1..Len(net) /\ net[i].kind = "upload" /\ IsSome(net[i].reply)
    /\ LET reply == Get(net[i].reply) IN
       client' =
         IF reply.status = 0
         THEN UploadFailed(<<"Could not connect to the backend server. Is it running?">>)
         ELSE IF reply.status = 200
         THEN UploadSettled(reply.contentType, reply.extractedData)
         ELSE UploadFailed(reply.message)
    /\ net' = RemoveAt(net, i)
    /\ UNCHANGED <<uploads, disk, queries, parseError>>

\* the textarea, rendered when extractedData is truthy,
\* disabled={isLoadingQuery || isLoadingUpload}
handleQueryChange(v) ==
    /\ client.apiKeySubmitted
    /\ ~Falsy(client.extractedData)
    /\ ~(client.isLoadingQuery \/ client.isLoadingUpload)
    /\ client' = [client EXCEPT !.userQuery = v]
    /\ UNCHANGED <<uploads, disk, queries, net, parseError>>

\* the Submit Question button, rendered when extractedData is truthy,
\* disabled={isLoadingQuery || isLoadingUpload || !userQuery.trim()}:
\* handleQuerySubmit up to await axios.post (the button cannot be pressed
\* with a blank question or without a document, so the handler's early
\* returns are never taken)
handleQuerySubmit ==
    /\ client.apiKeySubmitted
    /\ ~Falsy(client.extractedData)
    /\ ~(client.isLoadingQuery \/ client.isLoadingUpload \/ Trim(client.userQuery) = <<>>)
    /\ Len(net) < MaxInFlight
    /\ client' = [client EXCEPT !.isLoadingQuery = TRUE,
                                !.answeredDocument = JsNull,
                                !.llmResponse = <<>>,
                                !.queryErrorMessage = <<>>]
    /\ net' = Append(net, QueryRequest(Body(client.extractedData,
                                            JsString(client.userQuery),
                                            client.contentType,
                                            JsString(client.apiKey))))
    /\ UNCHANGED <<uploads, disk, queries, parseError>>

\* handleQuerySubmit after the await: try / catch / finally
QueryFailed(msg) ==
    [client EXCEPT !.queryErrorMessage = <<"Query failed: ">> \o msg,
                   !.answeredDocument = JsNull,
                   !.llmResponse = <<>>,
                   !.isLoadingQuery = FALSE]

\* the backend answers a pending query, or the transport gives up
QueryAnswered(i, reply) ==
    /\ i \in 1..Len(net) /\ net[i].kind = "query" /\ ~IsSome(net[i].reply)
    /\ reply \in QueryReplies(net[i].body) \cup {QueryNoConn}
    /\ net' = [net EXCEPT ![i].reply = Some(reply)]
    /\ UNCHANGED <<uploads, disk, queries, client, parseError>>

handleQueryResume(i) ==
    /\ i \in 1..Len(net) /\ net[i].kind = "query" /\ IsSome(net[i].reply)
    /\ LET reply == Get(net[i].reply) IN
       client' =
         IF reply.status = 0
         THEN QueryFailed(<<"Could not connect to the backend server for query.">>)
         ELSE IF reply.status = 200
         THEN [client EXCEPT !.llmResponse = Get(reply.answer),
                             !.answeredDocument = net[i].body.documentData,
                             !.isLoadingQuery = FALSE]
         ELSE QueryFailed(Get(reply.message))
    /\ net' = RemoveAt(net, i)
    /\ UNCHANGED <<uploads, disk, queries, parseError>>

\* mutant: Clear All leaves the question in place
handleClearAllKeepsQuestion ==
    /\ client.apiKeySubmitted
    /\ client' = [client EXCEPT !.selectedFile = None,
                                !.uploadStatus = "Idle",
                                !.extractedData = JsNull,
                                !.contentType = None,
                                !.isLoadingUpload = FALSE,
                                !.uploadErrorMessage = <<>>,
                                !.answeredDocument = JsNull,
                                !.llmResponse = <<>>,
                                !.isLoadingQuery = FALSE,
                                !.queryErrorMessage = <<>>]
    /\ UNCHANGED <<uploads, disk, queries, net, parseError>>

\* the Clear All button, never disabled
handleClearAll ==
    /\ client.apiKeySubmitted
    /\ client' = [client EXCEPT !.selectedFile = None,
                                !.uploadStatus = "Idle",
                                !.extractedData = JsNull,
                                !.contentType = None,
                                !.isLoadingUpload = FALSE,
                                !.uploadErrorMessage = <<>>,
                                !.userQuery = <<>>,
                                !.answeredDocument = JsNull,
                                !.llmResponse = <<>>,
                                !.isLoadingQuery = FALSE,
                                !.queryErrorMessage = <<>>]
    /\ UNCHANGED <<uploads, disk, queries, net, parseError>>

----------------------------------------------------------------------------
(* Properties *)

Done(r) == uploads[r].pc = "done"
Reply(r) == Get(uploads[r].res)

\* C1: once an upload request has been answered and its handler has
\* returned, the file multer stored for it is no longer in the uploads
\* directory, on every path (rejected, extracted, extraction failed).
ScratchFileRemoved ==
    \A r \in UploadIds :
        (Done(r) /\ IsSome(uploads[r].part)) =>
            LET onDisk == disk[filename(Get(uploads[r].part))] IN
            ~(IsSome(onDisk) /\ Get(onDisk).owner = r)

\* two finished uploads, one extracted and one whose extraction failed
ScratchFileRemovedWitness ==
    \E r1, r2 \in UploadIds :
        /\ Done(r1) /\ Reply(r1).status = 200 /\ uploads[r1].extractCalls = 1
        /\ Done(r2) /\ Reply(r2).status = 500 /\ uploads[r2].extractCalls = 1

\* the extension and the declared media type form one of the accepted pairs
PairedType(f) ==
    <<ToLowerCase(Extname(f.originalname)), f.mimetype>>
        \in {<<".pdf", MimePdf>>, <<".xlsx", MimeXlsx>>, <<".xls", MimeXls>>}

\* C2: an upload whose extension is not accepted, or whose media type is not
\* the one paired with its extension, is answered 400 with the invalid-file
\* message and extraction is never invoked for it.
UnpairedTypeRejected ==
    \A r \in UploadIds :
        (IsSome(uploads[r].part) /\ ~PairedType(Get(uploads[r].part))) =>
            /\ uploads[r].extractCalls = 0
            /\ Done(r) => Reply(r).status = 400

AbsentOrEmpty(v) == v.kind \in {"undefined", "null"} \/ v = JsString(<<>>)

\* C3: a /query body in which the document, the question or the credential
\* is absent or empty is answered 400 with the missing-field message and the
\* provider is not called.
MissingFieldRejected ==
    \A q \in QueryIds :
        LET b == queries[q].body IN
        (queries[q].pc # "idle"
            /\ (AbsentOrEmpty(b.documentData) \/ AbsentOrEmpty(b.userQuery)
                    \/ AbsentOrEmpty(b.apiKey))) =>
            /\ queries[q].pc = "done"
            /\ Get(queries[q].res) = QueryFail(400, MsgMissing)
            /\ queries[q].providerCalls = 0

\* a rejected query with a document but an empty question, and the reverse
MissingFieldRejectedWitness ==
    \E q \in QueryIds :
        /\ queries[q].pc = "done"
        /\ Get(queries[q].res).status = 400
        /\ ~AbsentOrEmpty(queries[q].body.documentData)
        /\ queries[q].body.userQuery = JsString(<<>>)
        /\ ~AbsentOrEmpty(queries[q].body.apiKey)

\* the payload has a non-empty text at candidates[0].content.parts[0].text
HasCandidateText(data) ==
    /\ HasFirstPart(data)
    /\ IsSome(FirstPart(data).text)
    /\ Get(FirstPart(data).text) # <<>>

Settled(q) ==
    queries[q].pc = "done" /\ IsSome(queries[q].outcome) /\ Get(queries[q].outcome).ok

\* C4: a successful provider reply with promptFeedback and no candidate text
\* is answered 200 with the serialized feedback as the answer.
FeedbackIsAnswer ==
    \A q \in QueryIds :
        LET data == Get(queries[q].outcome).data IN
        (Settled(q) /\ IsSome(data.promptFeedback) /\ ~HasCandidateText(data)) =>
            Get(queries[q].res) =
                QueryOk(<<"LLM Safety Feedback: ">>
                            \o StringifyFeedback(Get(data.promptFeedback)))

\* C5: a successful provider reply with neither non-empty text nor
\* promptFeedback is answered 200 with the fallback string.
NeitherShapeIsFallback ==
    \A q \in QueryIds :
        LET data == Get(queries[q].outcome).data IN
        (Settled(q) /\ ~IsSome(data.promptFeedback) /\ ~HasCandidateText(data)) =>
            Get(queries[q].res) = QueryOk(MsgFallback)

\* C6: the client never has more than one request awaiting its response.
OneRequestInFlight == Len(net) <= 1

SessionCleared(c) ==
    /\ c.extractedData = JsNull
    /\ c.contentType = None
    /\ c.userQuery = <<>>
    /\ c.llmResponse = <<>>

\* C7: immediately after Clear All the document, the content-type tag, the
\* question, the answer and the credential are all absent or empty.
ClearResetsEverything ==
    [][handleClearAll => (SessionCleared(client') /\ client'.apiKey = <<>>)]_vars

\* C7, amended: immediately after Clear All the document, the content-type
\* tag, the question and the answer are absent or empty, and the credential
\* is the one held before.
ClearResetsSession ==
    [][handleClearAll =>
        (SessionCleared(client') /\ client'.apiKey = client.apiKey
            /\ client'.apiKeySubmitted)]_vars

\* cleared while a request is still pending: nothing is loading although a
\* request is in flight, the session is empty and the credential is held
ClearResetsSessionWitness ==
    /\ net # <<>>
    /\ ~client.isLoadingUpload /\ ~client.isLoadingQuery
    /\ client.uploadStatus = "Idle"
    /\ SessionCleared(client)
    /\ client.apiKey # <<>>

TagFits(contentType, data) ==
    /\ contentType = Some("application/json") <=> data.kind = "object"
    /\ contentType = Some("text/plain") <=> data.kind = "string"

\* C8: every successful upload response carries application/json exactly
\* when extractedData is a sheet mapping and text/plain exactly when it is a
\* string, and whenever the client holds a document its stored tag is the
\* one that came in the same upload response as the document.
TagMatchesContent ==
    /\ \A i \in 1..Len(net) :
          (net[i].kind = "upload" /\ IsSome(net[i].reply)
                /\ Get(net[i].reply).status = 200) =>
              TagFits(Get(net[i].reply).contentType, Get(net[i].reply).extractedData)
    /\ ~Falsy(client.extractedData) =>
          /\ TagFits(client.contentType, client.extractedData)
          /\ \E f \in ClientFiles : \E reply \in UploadReplies(f) :
                /\ reply.status = 200
                /\ reply.extractedData = client.extractedData
                /\ reply.contentType = client.contentType

\* the client holds a sheet mapping while a text response is pending
TagMatchesContentWitness ==
    /\ client.extractedData.kind = "object"
    /\ client.contentType = Some("application/json")
    /\ \E i \in 1..Len(net) :
          /\ net[i].kind = "upload" /\ IsSome(net[i].reply)
          /\ Get(net[i].reply).status = 200
          /\ Get(net[i].reply).extractedData.kind = "string"

SizeMessage(m) == m = <<"Multer error: ">> \o MsgTooLarge

\* C9: an upload whose file exceeds 10 MiB is answered 400 with the
\* size-related message, and extraction is never attempted for it.
OversizeIsSizeError ==
    \A r \in UploadIds :
        (IsSome(uploads[r].part) /\ Get(uploads[r].part).size > 10 * 1024 * 1024) =>
            /\ uploads[r].extractCalls = 0
            /\ Done(r) => (Reply(r).status = 400 /\ SizeMessage(Reply(r).message))

\* C9, amended: an upload whose file exceeds 10 MiB is answered 400 and
\* extraction is never attempted for it; the message is the size-related one
\* when the file's extension and media type are accepted, and the
\* invalid-type one otherwise.
OversizeRejected ==
    \A r \in UploadIds :
        (IsSome(uploads[r].part) /\ Get(uploads[r].part).size > 10 * 1024 * 1024) =>
            /\ uploads[r].extractCalls = 0
            /\ Done(r) =>
                /\ Reply(r).status = 400
                /\ Reply(r).message =
                       IF fileFilter(Get(uploads[r].part))
                       THEN <<"Multer error: ">> \o MsgTooLarge
                       ELSE MsgInvalidType

\* an oversized PDF with the PDF media type has been answered
OversizeRejectedWitness ==
    \E r \in UploadIds :
        /\ Done(r) /\ IsSome(uploads[r].part)
        /\ Get(uploads[r].part).size > 10 * 1024 * 1024
        /\ PairedType(Get(uploads[r].part))
        /\ Get(uploads[r].part).bytes.fmt = "pdf"

\* t occurs in s as a contiguous run
ContainsSeq(s, t) ==
    \E i \in 0..(Len(s) - Len(t)) : SubSeq(s, i + 1, i + Len(t)) = t

IsHttpErrorMessage(m) == m # <<>> /\ m[1] = "Gemini API Error ("
IsUnreachableMessage(m) == m = MsgNoResponse
IsSetupErrorMessage(m) == m # <<>> /\ m[1] = "Gemini API Error: "

\* C10: a failed provider call is answered 500 with a message of exactly one
\* kind: with the provider's status and error message when the provider
\* answered with an error status, the provider-unreachable message when no
\* response was received, the request-setup message otherwise.
ProviderFailureClassified ==
    \A q \in QueryIds :
        (queries[q].pc = "done" /\ IsSome(queries[q].outcome)
                /\ ~Get(queries[q].outcome).ok) =>
            LET e == Get(queries[q].outcome).error
                res == Get(queries[q].res)
                m == Get(res.message)
            IN  /\ res.status = 500
                /\ IsSome(res.message)
                /\ IsHttpErrorMessage(m) <=> IsSome(e.response)
                /\ IsUnreachableMessage(m) <=> (~IsSome(e.response) /\ e.request)
                /\ IsSetupErrorMessage(m) <=> (~IsSome(e.response) /\ ~e.request)
                /\ IsSome(e.response) =>
                      /\ Contains(m, Get(e.response).status)
                      /\ LET err == Get(e.response).data.error IN
                         (IsSome(err) /\ IsSome(Get(err).message)) =>
                             ContainsSeq(m, Get(Get(err).message))
                /\ (~IsSome(e.response) /\ ~e.request) => ContainsSeq(m, e.message)

\* the provider answered 429 "quota exceeded"
ProviderFailureClassifiedWitness ==
    \E q \in QueryIds :
        /\ queries[q].pc = "done" /\ IsSome(queries[q].outcome)
        /\ Get(queries[q].outcome) =
              Rejected(HttpError("429", [error |-> Some([message |-> Some(<<"quota exceeded">>)])]))
        /\ ContainsSeq(Get(Get(queries[q].res).message), <<"quota exceeded">>)

\* C11: every /upload and /query request gets exactly one response on every
\* path; an error outcome is a {message} body with status 400 (invalid file,
\* no file, missing field) or 500 (extraction failure, provider failure);
\* no request is left without a next step before it is answered.
EveryRequestAnswered ==
    /\ \A r \in UploadIds :
          LET u == uploads[r] IN
          /\ u.sent = (IF Done(r) THEN 1 ELSE 0)
          /\ IsSome(u.res) <=> Done(r)
          /\ u.pc \in {"callback", "limit", "awaitPdf"} =>
                ENABLED (MulterLimit(r) \/ UploadCallback(r) \/ PdfParsed(r))
          /\ Done(r) =>
                /\ Reply(r).status \in {200, 400, 500}
                /\ Reply(r).status # 200 =>
                      (Reply(r).message # <<>> /\ Reply(r).extractedData = JsUndefined)
                /\ (u.err # "none" \/ ~IsSome(u.file)) => Reply(r).status = 400
                /\ (u.err = "none" /\ IsSome(u.file)) =>
                      /\ Reply(r).status \in {200, 500}
                      /\ Reply(r).status = 200 <=>
                            (u.extractCalls = 1
                                /\ Reply(r).extractedData.kind \in {"string", "object"})
    /\ \A q \in QueryIds :
          LET x == queries[q] IN
          /\ x.sent = (IF x.pc = "done" THEN 1 ELSE 0)
          /\ IsSome(x.res) <=> x.pc = "done"
          /\ x.pc = "awaitProvider" =>
                ENABLED (\E outcome \in BackendOutcomes : QuerySettle(q, outcome))
          /\ x.pc = "done" =>
                /\ Get(x.res).status \in {200, 400, 500}
                /\ Get(x.res).status # 200 =>
                      (IsSome(Get(x.res).message) /\ Get(Get(x.res).message) # <<>>
                          /\ ~IsSome(Get(x.res).answer))
                /\ Get(x.res).status = 200 => IsSome(Get(x.res).answer)
                /\ MissingField(x.body) <=> Get(x.res).status = 400
                /\ (IsSome(x.outcome) /\ ~Get(x.outcome).ok) => Get(x.res).status = 500

\* an upload whose extraction failed and a query whose provider call failed
\* have both been answered
EveryRequestAnsweredWitness ==
    /\ \E r \in UploadIds :
          Done(r) /\ uploads[r].extractCalls = 1 /\ Reply(r).status = 500
    /\ \E q \in QueryIds :
          /\ queries[q].pc = "done" /\ IsSome(queries[q].outcome)
          /\ ~Get(queries[q].outcome).ok
          /\ Get(queries[q].res).status = 500

\* the uploads received so far have pairwise distinct original filenames
DistinctNames ==
    \A r1, r2 \in UploadIds :
        (r1 # r2 /\ IsSome(uploads[r1].part) /\ IsSome(uploads[r2].part)) =>
            Get(uploads[r1].part).originalname # Get(uploads[r2].part).originalname

\* responses depend on the request alone
IndependentReplies ==
    /\ \A r \in UploadIds :
          Done(r) =>
              Reply(r) = IF IsSome(uploads[r].part)
                         THEN SoloUploadReply(Get(uploads[r].part))
                         ELSE RejectReply("none", <<>>)
    /\ \A q \in QueryIds :
          queries[q].pc = "done" =>
              Get(queries[q].res) =
                  IF MissingField(queries[q].body) THEN QueryFail(400, MsgMissing)
                  ELSE QueryReply(Get(queries[q].outcome))

\* a file leaves the uploads directory only in a step of the upload that
\* stored it
DeletesOwnFile ==
    \A n \in Names :
        (IsSome(disk[n]) /\ ~IsSome(disk'[n])) =>
            LET o == Get(disk[n]).owner IN
            /\ uploads'[o] # uploads[o]
            /\ Get(uploads[o].part).originalname = n

\* C12: for concurrent uploads with pairwise distinct original filenames,
\* interleaved with queries, every response is the one the request would get
\* alone (an upload's content comes from its own bytes) and every upload
\* deletes only the scratch file it stored.
RequestsIndependent ==
    /\ [](DistinctNames => IndependentReplies)
    /\ [][DistinctNames => DeletesOwnFile]_vars

\* a PDF and a workbook uploaded side by side, both extracted, and a query
\* answered
RequestsIndependentWitness ==
    /\ \E r1, r2 \in UploadIds :
          /\ Done(r1) /\ Reply(r1).status = 200 /\ Reply(r1).extractedData.kind = "string"
          /\ Done(r2) /\ Reply(r2).status = 200 /\ Reply(r2).extractedData.kind = "object"
    /\ \E q \in QueryIds : queries[q].pc = "done" /\ Get(queries[q].res).status = 200

\* the literal chunks of the prompt template and of the JSON layout; every
\* other symbol of a prompt is document or question data
LayoutChunks ==
    {PromptHead[1], PromptMid[1], PromptCue[1], "{", "{}", "\n}", "\n  \"", "\": [",
     "\n  ]", "\n    [", "\n    ]", "\n      \"", "\"", ","}

RECURSIVE DataOf(_)
DataOf(s) ==
    IF s = <<>> THEN <<>>
    ELSE (IF Head(s) \in LayoutChunks THEN <<>> ELSE <<Head(s)>>) \o DataOf(Tail(s))

RECURSIVE Concat(_)
Concat(ss) == IF ss = <<>> THEN <<>> ELSE Head(ss) \o Concat(Tail(ss))

\* sheet names and cells of a sheet mapping, in sheet, row and column order
SheetCells(rows) == Concat([i \in 1..Len(rows) |-> Concat(rows[i])])
DocumentCells(entries) ==
    Concat([i \in 1..Len(entries) |-> <<entries[i].key>> \o SheetCells(entries[i].val)])

Asked(q) == queries[q].pc # "idle" /\ ~MissingField(queries[q].body)

\* C13: the prompt depends on (content, contentType, question) alone; it
\* ends with the question followed by the "ANSWER:" cue; a sheet mapping
\* tagged application/json enters it with its sheets, rows and cells in
\* order, a string tagged text/plain enters it unchanged between the
\* document delimiters.
PromptShape ==
    \A q \in QueryIds :
        Asked(q) =>
            LET b == queries[q].body
                p == queries[q].prompt
                question == b.userQuery.s
                n == Len(question)
            IN  /\ Len(p) >= n + 3
                /\ p[Len(p)] = "\n\nANSWER:"
                /\ SubSeq(p, Len(p) - n, Len(p) - 1) = question
                /\ p[Len(p) - n - 1] = "\n---\n\nUSER QUESTION: "
                /\ ContainsSeq(p, question)
                /\ (b.contentType = Some("application/json")
                        /\ b.documentData.kind = "object") =>
                      DataOf(p) = DocumentCells(b.documentData.entries) \o question
                /\ (b.contentType = Some("text/plain")
                        /\ b.documentData.kind = "string") =>
                      SubSeq(p, 2, Len(p) - n - 2) = b.documentData.s
                /\ \A q2 \in QueryIds :
                      (Asked(q2) /\ queries[q2].body = b) => queries[q2].prompt = p

\* a prompt was built from a workbook of two sheets
PromptShapeWitness ==
    \E q \in QueryIds :
        /\ Asked(q)
        /\ queries[q].body.contentType = Some("application/json")
        /\ queries[q].body.documentData.kind = "object"
        /\ Len(queries[q].body.documentData.entries) = 2

\* C14: a /query request that passes field validation calls the provider
\* exactly once, whatever the call's outcome; no second call is made.
SingleProviderCall ==
    \A q \in QueryIds :
        /\ Asked(q) => queries[q].providerCalls = 1
        /\ ~Asked(q) => queries[q].providerCalls = 0

\* answered after the provider failed, with one call made
SingleProviderCallWitness ==
    \E q \in QueryIds :
        /\ queries[q].pc = "done" /\ IsSome(queries[q].outcome)
        /\ ~Get(queries[q].outcome).ok
        /\ queries[q].providerCalls = 1

\* C15: a non-empty text at candidates[0].content.parts[0].text is answered
\* 200 with exactly that text trimmed, with or without promptFeedback; an
\* empty text is not returned as the answer.
CandidateTextIsAnswer ==
    \A q \in QueryIds :
        LET data == Get(queries[q].outcome).data IN
        (Settled(q) /\ HasFirstPart(data) /\ IsSome(FirstPart(data).text)) =>
            LET text == Get(FirstPart(data).text) IN
            /\ text # <<>> => Get(queries[q].res) = QueryOk(Trim(text))
            /\ text = <<>> => Get(queries[q].res) # QueryOk(text)

SameName(r1, r2) ==
    /\ r1 # r2 /\ IsSome(uploads[r1].part) /\ IsSome(uploads[r2].part)
    /\ Get(uploads[r1].part).originalname = Get(uploads[r2].part).originalname

\* r1 was answered with what the route extracts from r2's bytes
AnsweredFrom(r1, r2) ==
    Reply(r1) = HandlerReply(ToLowerCase(Extname(Get(uploads[r1].part).originalname)),
                             Get(uploads[r2].part).bytes)

\* C16: concurrent uploads with the same original filename share a scratch
\* path; an upload answered otherwise than it would be alone was answered
\* from the bytes of a same-name upload or failed with 500 because the shared
\* file was already deleted, and such executions exist (the witness).
SameNameRace ==
    \A r \in UploadIds :
        (Done(r) /\ IsSome(uploads[r].part)
                /\ Reply(r) # SoloUploadReply(Get(uploads[r].part))) =>
            \E r2 \in UploadIds :
                /\ SameName(r, r2)
                /\ AnsweredFrom(r, r2) \/ Reply(r) = ParseFailed(MsgENOENT)

\* two uploads named alike with different bytes: one was answered with the
\* other's content, the other failed because the file was gone
SameNameRaceWitness ==
    \E r1, r2 \in UploadIds :
        /\ SameName(r1, r2)
        /\ Done(r1) /\ Reply(r1).status = 200
        /\ Reply(r1) # SoloUploadReply(Get(uploads[r1].part))
        /\ AnsweredFrom(r1, r2)
        /\ Done(r2) /\ uploads[r2].err = "none" /\ Reply(r2) = ParseFailed(MsgENOENT)

\* C17: a non-empty stored answer belongs to the document currently held: it
\* came from a query sent with that document, and a document is held.
AnswerBelongsToDocument ==
    client.llmResponse # <<>> =>
        /\ ~Falsy(client.extractedData)
        /\ client.answeredDocument = client.extractedData

\* nothing selected, nothing loading, no document, tag or answer: the state
\* Clear All leaves
ClearedState ==
    /\ client.apiKeySubmitted
    /\ ~IsSome(client.selectedFile) /\ client.uploadStatus = "Idle"
    /\ ~client.isLoadingUpload /\ ~client.isLoadingQuery
    /\ client.extractedData = JsNull /\ client.contentType = None
    /\ client.llmResponse = <<>>

\* C18: once Clear All has run, the document, the tag and the answer stay
\* absent until the user starts a new upload or query; a response to a
\* request dispatched before the clear does not bring them back.
ClearedStaysCleared ==
    [][(ClearedState /\ ~handleUpload /\ ~handleQuerySubmit) =>
          /\ client'.extractedData = JsNull
          /\ client'.contentType = None
          /\ client'.llmResponse = <<>>]_vars

FailedUploadStep ==
    \E i \in 1..Len(net) : handleUploadResume(i) /\ Get(net[i].reply).status # 200

SucceededUploadStep ==
    \E i \in 1..Len(net) : handleUploadResume(i) /\ Get(net[i].reply).status = 200

UploadStepEffects ==
    /\ handleUpload =>
          /\ client'.extractedData = JsNull
          /\ client'.contentType = None
          /\ client'.llmResponse = <<>>
          /\ client'.apiKey = client.apiKey
          /\ client'.apiKeySubmitted = client.apiKeySubmitted
    /\ FailedUploadStep =>
          (client'.extractedData = JsNull /\ client'.contentType = None)
    /\ (Falsy(client.extractedData) /\ ~Falsy(client'.extractedData)) =>
          SucceededUploadStep

\* C19: starting an upload drops the held document, its tag and the answer
\* and leaves the credential as it was; a failed upload leaves no document;
\* without a document no query can be submitted, and a document appears only
\* when an upload succeeds.
UploadReplacesDocument ==
    /\ [](Falsy(client.extractedData) => ~ENABLED handleQuerySubmit)
    /\ [][UploadStepEffects]_vars

\* an upload has failed and nothing else is pending: no document is held
UploadReplacesDocumentWitness ==
    /\ client.uploadStatus = "Upload failed"
    /\ client.uploadErrorMessage # <<>>
    /\ Falsy(client.extractedData)
    /\ client.apiKey # <<>>
    /\ net = <<>>

\* C20: every query the client dispatches carries a present document, a
\* question that is non-empty after trimming and a non-empty credential, and
\* is never answered with the missing-field rejection.
DispatchedQueryComplete ==
    \A i \in 1..Len(net) :
        net[i].kind = "query" =>
            LET b == net[i].body
            IN  /\ ~Falsy(b.documentData)
                /\ b.userQuery.kind = "string" /\ Trim(b.userQuery.s) # <<>>
                /\ b.apiKey.kind = "string" /\ b.apiKey.s # <<>>
                /\ ~MissingField(b)
                /\ (IsSome(net[i].reply) => Get(net[i].reply) # QueryFail(400, MsgMissing))

\* a dispatched query has been answered by the backend
DispatchedQueryCompleteWitness ==
    \E i \in 1..Len(net) :
        /\ net[i].kind = "query" /\ IsSome(net[i].reply)
        /\ Get(net[i].reply).status = 200

\* a request keeps its place in net until a request at or before that place
\* is settled: one that never settled would from some point on hold one
\* place i for ever, with no continuation run at a place up to i
SettledUpTo(i) == \E j \in 1..i : handleUploadResume(j) \/ handleQueryResume(j)

\* the continuation of a settled upload: try / catch / finally
UploadSettleEffects ==
    \A i \in 1..Len(net) :
        handleUploadResume(i) =>
            /\ ~client'.isLoadingUpload
            /\ IF Get(net[i].reply).status = 200
               THEN /\ client'.extractedData = Get(net[i].reply).extractedData
                    /\ client'.contentType = Get(net[i].reply).contentType
               ELSE client'.uploadErrorMessage # <<>>

\* the continuation of a settled query: try / catch / finally
QuerySettleEffects ==
    \A i \in 1..Len(net) :
        handleQueryResume(i) =>
            /\ ~client'.isLoadingQuery
            /\ IF Get(net[i].reply).status = 200
               THEN client'.llmResponse = Get(Get(net[i].reply).answer)
               ELSE client'.queryErrorMessage # <<>>

SettleEffects == UploadSettleEffects /\ QuerySettleEffects

\* C21: every dispatched upload or query eventually settles when the
\* transport eventually answers or fails: no request stays pending for
\* ever, a raised loading flag comes down again, and the step
\* that settles a request lowers its loading flag and either stores the
\* result (document and tag, or answer) or sets a non-empty error message.
DispatchedSettles ==
    /\ \A i \in 1..MaxInFlight : []<>(Len(net) < i) \/ []<><<SettledUpTo(i)>>_vars
    /\ client.isLoadingUpload ~> ~client.isLoadingUpload
    /\ client.isLoadingQuery ~> ~client.isLoadingQuery
    /\ [][SettleEffects]_vars

\* an upload and a query were dispatched and both have settled with their
\* results stored
DispatchedSettlesWitness ==
    /\ net = <<>>
    /\ ~client.isLoadingUpload /\ ~client.isLoadingQuery
    /\ client.uploadStatus = "File uploaded and processed successfully!"
    /\ ~Falsy(client.extractedData)
    /\ client.llmResponse # <<>>

----------------------------------------------------------------------------
(* Specifications *)

Init ==
    /\ uploads = [r \in UploadIds |-> IdleUpload]
    /\ disk = [n \in Names |-> None]
    /\ parseError = <<>>
    /\ queries = [q \in QueryIds |-> IdleQuery]
    /\ client = InitialClient
    /\ net = <<>>

\* concurrent /upload requests
NextUploads ==
    \E r \in UploadIds :
        \/ MulterNoFile(r)
        \/ \E f \in NarrowFiles : MulterReceive(r, f)
        \/ MulterLimit(r)
        \/ UploadCallback(r)
        \/ PdfParsed(r)

SpecUploads == Init /\ [][NextUploads]_vars

\* one /upload request, any file
NextUpload ==
    \/ MulterNoFile(1)
    \/ \E f \in WideFiles : MulterReceive(1, f)
    \/ MulterLimit(1)
    \/ UploadCallback(1)
    \/ PdfParsed(1)

SpecUpload == Init /\ [][NextUpload]_vars

\* /query requests
NextQuery ==
    \E q \in QueryIds :
        \/ \E body \in Bodies : QueryReceive(q, body)
        \/ \E outcome \in Outcomes : QuerySettle(q, outcome)

SpecQuery == Init /\ [][NextQuery]_vars

\* the backend: concurrent /upload and /query requests
NextBackend ==
    \/ \E r \in UploadIds :
          \/ MulterNoFile(r)
          \/ \E f \in NarrowFiles : MulterReceive(r, f)
          \/ MulterLimit(r)
          \/ UploadCallback(r)
          \/ PdfParsed(r)
    \/ \E q \in QueryIds :
          \/ \E body \in BackendBodies : QueryReceive(q, body)
          \/ \E outcome \in BackendOutcomes : QuerySettle(q, outcome)

SpecBackend == Init /\ [][NextBackend]_vars

\* the client against the backend
NextClient ==
    \/ \E v \in KeyInputs : handleApiKeyInputChange(v)
    \/ handleApiKeySubmit
    \/ \E file \in {None} \cup {Some(f) : f \in ClientFiles} : handleFileChange(file)
    \/ handleUpload
    \/ \E i \in 1..MaxInFlight :
          \E reply \in {UploadNoConn} \cup UNION {UploadReplies(f) : f \in ClientFiles} :
              UploadAnswered(i, reply)
    \/ \E i \in 1..MaxInFlight : handleUploadResume(i)
    \/ \E v \in QuestionInputs : handleQueryChange(v)
    \/ handleQuerySubmit
    \/ \E i \in 1..MaxInFlight :
          \E reply \in {QueryNoConn, QueryFail(400, MsgMissing)}
                       \cup {QueryReply(o) : o \in ClientOutcomes} :
              QueryAnswered(i, reply)
    \/ \E i \in 1..MaxInFlight : handleQueryResume(i)
    \/ handleClearAll

SpecClient == Init /\ [][NextClient]_vars

\* one session of the client: a PDF with text or a text file is picked, no
\* two uploads share a scratch file, and the transport settles every request
\* (a response, or an error without one) and the event loop runs the
\* continuation of every settled promise
SessionFiles ==
    {File(Name("a", ".pdf"), MimePdf, 1, PdfBytes(<<"a", " ">>)),
     File(Name("d", ".txt"), MimeTxt, 1, Garbage)}
SessionQuestions == {<<"a">>}
\* the provider answers with text, or refuses with a status
SessionOutcomes ==
    {Resolved([candidates |->
                  Some(<<[content |-> Some([parts |-> Some(<<[text |-> Some(<<" ", "a", "\n">>)]>>)])]>>),
               promptFeedback |-> None]),
     Rejected(HttpError("429", [error |-> Some([message |-> Some(<<"quota exceeded">>)])]))}
SessionKeys == {<<" ">>, <<"k", " ">>}

UploadTransport(i) ==
    \E reply \in {UploadNoConn} \cup {SoloUploadReply(f) : f \in SessionFiles} :
        UploadAnswered(i, reply)

QueryTransport(i) ==
    \E reply \in {QueryNoConn} \cup {QueryReply(o) : o \in SessionOutcomes} :
        QueryAnswered(i, reply)

TransportSettles(i) == UploadTransport(i) \/ QueryTransport(i)

ContinuationRuns(i) == handleUploadResume(i) \/ handleQueryResume(i)

NextSession ==
    \/ \E v \in SessionKeys : handleApiKeyInputChange(v)
    \/ handleApiKeySubmit
    \/ \E file \in {None} \cup {Some(f) : f \in SessionFiles} : handleFileChange(file)
    \/ handleUpload
    \/ \E i \in 1..MaxInFlight : UploadTransport(i)
    \/ \E i \in 1..MaxInFlight : handleUploadResume(i)
    \/ \E v \in SessionQuestions : handleQueryChange(v)
    \/ handleQuerySubmit
    \/ \E i \in 1..MaxInFlight : QueryTransport(i)
    \/ \E i \in 1..MaxInFlight : handleQueryResume(i)
    \/ handleClearAll

SpecSession ==
    /\ Init /\ [][NextSession]_vars
    /\ \A i \in 1..MaxInFlight : WF_vars(TransportSettles(i))
    /\ \A i \in 1..MaxInFlight : WF_vars(ContinuationRuns(i))

Spec == SpecClient
====
